---- MODULE Spec2Model ----
(***************************************************************************)
(* Model of the in-memory todo service of main.go: the shared map `todos`, *)
(* the counter `nextID`, the mutex `mu`, and the four HTTP handlers.       *)
(* net/http serves each request in a goroutine of its own; a running       *)
(* handler is a frame holding its position and its local variables, and    *)
(* the frames of the handlers in flight form a bag (goroutines have no     *)
(* identity the code could read).  A handler is split into the steps that  *)
(* touch shared state, so interleavings of handlers are interleavings of   *)
(* these steps.                                                            *)
(***************************************************************************)
EXTENDS Integers, Sequences, FiniteSets, Bags, TLC

\* Number of requests the server handles at the same time.
NProcs == 2

\* Number of Create requests admitted past decoding in one behaviour.
MaxCreates == 2

VARIABLES
    todos,      \* map[int]Todo: function from the present ids to Todo records
    nextID,     \* the auto-incrementing id
    mu,         \* the mutex: TRUE when locked
    frames,     \* bag of the frames of the handlers in flight
    issued,     \* history: the Create responses, in the order they were written
    deleted,    \* history: ids removed by a successful Delete
    markedDone, \* history: for each present id a successful MarkDone has stored,
                \* the todo its first such call stored
    atomic      \* history: the atomic store, run in the order the lock is acquired

vars == <<todos, nextID, mu, frames, issued, deleted, markedDone, atomic>>

shared == <<todos, nextID>>
hist == <<issued, deleted, markedDone, atomic>>

----------------------------------------------------------------------------
(* Requests *)

Methods == {"GET", "POST", "PUT", "DELETE"}

\* Query values of ?id= as character sequences; <<>> is a missing parameter.
IdStrs == { <<>>, <<"x">>, <<"-", "1">>, <<"0">>, <<"1">>, <<"2">>, <<"+", "2">>, <<"3">> }

\* Request bodies as parsed JSON documents, or text that is not JSON.
NoReqBody == [kind |-> "empty"]
Bodies == { [kind |-> "malformed"],
            [kind |-> "object", fields |-> [f \in {} |-> 0]],
            [kind |-> "object", fields |-> [f \in {"title"} |-> [type |-> "string", val |-> ""]]],
            [kind |-> "object", fields |-> [f \in {"title"} |-> [type |-> "string", val |-> "a"]]],
            [kind |-> "object", fields |-> [f \in {"title"} |-> [type |-> "number", val |-> "5"]]] }

\* What a handler has read of its request when it refuses it.
NoReq == [route |-> "", method |-> "", idStr |-> <<>>, body |-> NoReqBody]

----------------------------------------------------------------------------
(* Conversions *)


Digits == <<"0", "1", "2", "3", "4", "5", "6", "7", "8", "9">>

IsDigit(c) == \E d \in 1..10 : Digits[d] = c

DigitVal(c) == (CHOOSE d \in 1..10 : Digits[d] = c) - 1

RECURSIVE DigitsVal(_)
DigitsVal(s) ==
    IF s = <<>> THEN 0
    ELSE 10 * DigitsVal(SubSeq(s, 1, Len(s) - 1)) + DigitVal(s[Len(s)])

\* strconv.Atoi: an optional sign, then one or more decimal digits.
Atoi(s) ==
    LET signed == s # <<>> /\ s[1] \in {"+", "-"}
        ds == IF signed THEN Tail(s) ELSE s
    IN  IF ds = <<>> \/ \E i \in 1..Len(ds) : ~IsDigit(ds[i])
        THEN [err |-> TRUE, val |-> 0]
        ELSE [err |-> FALSE,
              val |-> IF signed /\ s[1] = "-" THEN 0 - DigitsVal(ds) ELSE DigitsVal(ds)]

RECURSIVE NatToStr(_)
NatToStr(n) ==
    IF n < 10 THEN <<Digits[n + 1]>>
    ELSE Append(NatToStr(n \div 10), Digits[(n % 10) + 1])

\* The text encoding/json gives an integer map key.
Itoa(n) == IF n < 0 THEN <<"-">> \o NatToStr(0 - n) ELSE NatToStr(n)

\* json.Decoder.Decode into a CreateTodoRequest: text that is not JSON, or a
\* title that is not a string, is an error; an absent title leaves "".
Decode(b) ==
    IF b.kind # "object" THEN [err |-> TRUE, Title |-> ""]
    ELSE IF "title" \notin DOMAIN b.fields THEN [err |-> FALSE, Title |-> ""]
    ELSE IF b.fields["title"].type # "string" THEN [err |-> TRUE, Title |-> ""]
    ELSE [err |-> FALSE, Title |-> b.fields["title"].val]

NoBody == [kind |-> "none"]

NoTodo == [ID |-> 0, Title |-> "", Done |-> FALSE]

\* json encoding of a Todo, with the field names of the struct tags.
EncodeTodo(t) == [kind |-> "todo", id |-> t.ID, title |-> t.Title, done |-> t.Done]

\* json encoding of map[int]Todo: an object keyed by the decimal text of each id.
EncodeTodos(m) ==
    [kind |-> "map",
     m |-> [s \in {Itoa(k) : k \in DOMAIN m} |-> EncodeTodo(m[Atoi(s).val])]]

----------------------------------------------------------------------------
(* Go map operations *)

\* m[k] = v
Put(m, k, v) == [x \in (DOMAIN m) \cup {k} |-> IF x = k THEN v ELSE m[x]]

\* delete(m, k)
Remove(m, k) == [x \in (DOMAIN m) \ {k} |-> m[x]]

----------------------------------------------------------------------------
(* The atomic store: each operation of section 4.1 of the specification as one
   step on a state st = [todos, nextID], giving the next state and the
   response *)

SeqList(st) ==
    [st |-> st, status |-> 200, body |-> EncodeTodos(st.todos)]

SeqCreate(st, title) ==
    LET t == [ID |-> st.nextID, Title |-> title, Done |-> FALSE]
    IN  [st |-> [todos |-> Put(st.todos, st.nextID, t), nextID |-> st.nextID + 1],
         status |-> 200, body |-> EncodeTodo(t)]

SeqMarkDone(st, id) ==
    IF id \in DOMAIN st.todos
    THEN LET t == [st.todos[id] EXCEPT !.Done = TRUE]
         IN  [st |-> [st EXCEPT !.todos = Put(st.todos, id, t)],
              status |-> 200, body |-> EncodeTodo(t)]
    ELSE [st |-> st, status |-> 404, body |-> NoBody]

SeqDelete(st, id) ==
    IF id \in DOMAIN st.todos
    THEN [st |-> [st EXCEPT !.todos = Remove(st.todos, id)],
          status |-> 204, body |-> NoBody]
    ELSE [st |-> st, status |-> 404, body |-> NoBody]

NoExp == [status |-> 0, body |-> NoBody]

\* Frame f with the response r of the atomic store noted in it.
Expect(f, r) == [f EXCEPT !.exp = [status |-> r.status, body |-> r.body]]

----------------------------------------------------------------------------
(* The mutex and the response writer *)

\* Mutation: Lock returns at once, whether or not the mutex is held.
Lock_NoWait == mu' = TRUE

\* sync.Mutex.Lock: blocks until the mutex is unlocked.
Lock == mu = FALSE /\ mu' = TRUE

\* sync.Mutex.Unlock
Unlock == mu' = FALSE

\* WriteHeader on frame f: the first status written is the one sent.
WriteHeader(f, code) == [f EXCEPT !.status = IF f.status = 0 THEN code ELSE f.status]

\* Encoder.Encode on the ResponseWriter: an implicit 200 unless a status was written.
Write(f, b) == [WriteHeader(f, 200) EXCEPT !.body = b]

----------------------------------------------------------------------------
(* Frames *)

\* The frame of a handler that has just been entered: its position, its locals
\* (the r.Method it read, err, id, req.Title, todo) and its ResponseWriter.
\* getTodosHandler never reads r.Method: its frame keeps method = "".
\* exp is history: the response the atomic store gave when the lock was taken.
Frame(at) ==
    [pc |-> at, method |-> "", err |-> FALSE, id |-> 0, title |-> "", todo |-> NoTodo,
     status |-> 0, body |-> NoBody, bad |-> NoReq, exp |-> NoExp]

Frames == BagToSet(frames)

\* Number of frames in flight whose position is in P.
NumAt(P) == BagCardinality([f \in {g \in Frames : g.pc \in P} |-> frames[f]])

Enter(f) == frames' = frames (+) SetToBag({f})

Step(f, g) == frames' = (frames (-) SetToBag({f})) (+) SetToBag({g})

Leave(f) == frames' = frames (-) SetToBag({f})

Goto(f, next) == [f EXCEPT !.pc = next]

DonePcs == {"l_done", "c_done", "u_done", "d_done"}
LockPcs == {"l_lock", "c_lock", "u_lock", "d_lock"}
CritPcs == {"l_encode", "l_unlock",
            "c_build", "c_store", "c_inc", "c_encode", "c_unlock",
            "u_lookup", "u_store", "u_encode", "u_unlock",
            "d_lookup", "d_delete", "d_write", "d_unlock"}

\* A finished handler's response is taken off before any goroutine moves on:
\* the *_done positions only expose a response to the properties below.
Quiet == \A f \in Frames : f.pc \notin DonePcs

\* A goroutine is available for a new request.
Free == Quiet /\ BagCardinality(frames) < NProcs

\* An early return before the lock: a status is written and nothing shared is
\* read or written.  Such a step commutes with every step of the other
\* handlers; it is taken against an idle server and at each point of another
\* handler's critical section.
Reject(g, r, code, at) ==
    /\ \A f \in Frames : f.pc \notin LockPcs
    /\ Enter(WriteHeader([g EXCEPT !.pc = at, !.bad = r], code))
    /\ UNCHANGED <<shared, mu, hist>>

\* Creates admitted so far: answered ones and those still in the handler.
CreatesAdmitted == Len(issued) + NumAt({"c_lock", "c_build", "c_store", "c_inc", "c_encode"})

Init ==
    /\ todos = [k \in {} |-> NoTodo]
    /\ nextID = 1
    /\ mu = FALSE
    /\ frames = EmptyBag
    /\ issued = <<>>
    /\ deleted = {}
    /\ markedDone = [k \in {} |-> NoTodo]
    /\ atomic = [todos |-> [k \in {} |-> NoTodo], nextID |-> 1]

----------------------------------------------------------------------------
(* getTodosHandler *)

\* Mutation: the handler refuses every method but GET with 405.
ListBegin_GetOnly ==
    /\ Free
    /\ \E m \in Methods :
         LET g == [Frame("l_lock") EXCEPT !.method = m]
         IN  IF m # "GET"
             THEN Reject(g, [NoReq EXCEPT !.route = "/todos", !.method = m], 405, "l_done")
             ELSE /\ Enter(Frame("l_lock"))
                  /\ UNCHANGED <<shared, mu, hist>>

ListBegin ==
    /\ Free
    /\ \E m \in Methods : Enter(Frame("l_lock"))
    /\ UNCHANGED <<shared, mu, hist>>

\* Mutation: getTodosHandler reads the map without waiting for the mutex.
ListLock_NoWait(f) ==
    /\ f.pc = "l_lock" /\ Quiet
    /\ mu' = TRUE
    /\ Step(f, Goto(Expect(f, SeqList(atomic)), "l_encode"))
    /\ atomic' = SeqList(atomic).st
    /\ UNCHANGED <<shared, issued, deleted, markedDone>>

ListLock(f) ==
    /\ f.pc = "l_lock" /\ Quiet
    /\ Lock
    /\ Step(f, Goto(Expect(f, SeqList(atomic)), "l_encode"))
    /\ atomic' = SeqList(atomic).st
    /\ UNCHANGED <<shared, issued, deleted, markedDone>>

ListEncode(f) ==
    /\ f.pc = "l_encode" /\ Quiet
    /\ Step(f, Goto(Write(f, EncodeTodos(todos)), "l_unlock"))
    /\ UNCHANGED <<shared, mu, hist>>

ListUnlock(f) ==
    /\ f.pc = "l_unlock" /\ Quiet
    /\ Unlock
    /\ Step(f, Goto(f, "l_done"))
    /\ UNCHANGED <<shared, hist>>

----------------------------------------------------------------------------
(* createTodoHandler *)

\* Mutation: the check of r.Method is missing.
CreateBegin_AnyMethod ==
    /\ Free
    /\ \E m \in Methods, b \in Bodies :
         LET g == [Frame("c_lock") EXCEPT !.method = m]
         IN  IF Decode(b).err
             THEN Reject([g EXCEPT !.err = TRUE],
                         [NoReq EXCEPT !.route = "/todos/create", !.method = m, !.body = b],
                         400, "c_done")
             ELSE /\ CreatesAdmitted < MaxCreates
                  /\ Enter([g EXCEPT !.title = Decode(b).Title])
                  /\ UNCHANGED <<shared, mu, hist>>

CreateBegin ==
    /\ Free
    /\ \E m \in Methods, b \in Bodies :
         LET g == [Frame("c_lock") EXCEPT !.method = m]
         IN  IF m # "POST"
             THEN Reject(g, [NoReq EXCEPT !.route = "/todos/create", !.method = m],
                         405, "c_done")
             ELSE IF Decode(b).err
             THEN Reject([g EXCEPT !.err = TRUE],
                         [NoReq EXCEPT !.route = "/todos/create", !.method = m, !.body = b],
                         400, "c_done")
             ELSE /\ CreatesAdmitted < MaxCreates
                  /\ Enter([g EXCEPT !.title = Decode(b).Title])
                  /\ UNCHANGED <<shared, mu, hist>>

\* Mutation: the handler enters its critical section without waiting.
CreateLock_NoWait(f) ==
    /\ f.pc = "c_lock" /\ Quiet
    /\ mu' = TRUE
    /\ Step(f, Goto(Expect(f, SeqCreate(atomic, f.title)), "c_build"))
    /\ atomic' = SeqCreate(atomic, f.title).st
    /\ UNCHANGED <<shared, issued, deleted, markedDone>>

CreateLock(f) ==
    /\ f.pc = "c_lock" /\ Quiet
    /\ Lock
    /\ Step(f, Goto(Expect(f, SeqCreate(atomic, f.title)), "c_build"))
    /\ atomic' = SeqCreate(atomic, f.title).st
    /\ UNCHANGED <<shared, issued, deleted, markedDone>>

\* Mutation: the id is taken from the size of the map, ID: len(todos) + 1.
CreateBuild_LenID(f) ==
    /\ f.pc = "c_build" /\ Quiet
    /\ Step(f, [f EXCEPT !.pc = "c_store",
                         !.todo = [ID |-> Cardinality(DOMAIN todos) + 1,
                                   Title |-> f.title, Done |-> FALSE]])
    /\ UNCHANGED <<shared, mu, hist>>

\* Mutation: the title of the request is not copied into the todo.
CreateBuild_NoTitle(f) ==
    /\ f.pc = "c_build" /\ Quiet
    /\ Step(f, [f EXCEPT !.pc = "c_store",
                         !.todo = [ID |-> nextID, Title |-> "", Done |-> FALSE]])
    /\ UNCHANGED <<shared, mu, hist>>

CreateBuild(f) ==
    /\ f.pc = "c_build" /\ Quiet
    /\ Step(f, [f EXCEPT !.pc = "c_store",
                         !.todo = [ID |-> nextID, Title |-> f.title, Done |-> FALSE]])
    /\ UNCHANGED <<shared, mu, hist>>

\* Mutation: the counter is advanced before the store, todos[nextID+1] = todo.
CreateStore_KeyAfter(f) ==
    /\ f.pc = "c_store" /\ Quiet
    /\ todos' = Put(todos, nextID + 1, f.todo)
    /\ Step(f, Goto(f, "c_inc"))
    /\ UNCHANGED <<nextID, mu, hist>>

CreateStore(f) ==
    /\ f.pc = "c_store" /\ Quiet
    /\ todos' = Put(todos, nextID, f.todo)
    /\ Step(f, Goto(f, "c_inc"))
    /\ UNCHANGED <<nextID, mu, hist>>

\* Mutation: nextID++ is missing.
CreateInc_NoInc(f) ==
    /\ f.pc = "c_inc" /\ Quiet
    /\ Step(f, Goto(f, "c_encode"))
    /\ UNCHANGED <<shared, mu, hist>>

CreateInc(f) ==
    /\ f.pc = "c_inc" /\ Quiet
    /\ nextID' = nextID + 1
    /\ Step(f, Goto(f, "c_encode"))
    /\ UNCHANGED <<todos, mu, hist>>

CreateEncode(f) ==
    /\ f.pc = "c_encode" /\ Quiet
    /\ Step(f, Goto(Write(f, EncodeTodo(f.todo)), "c_unlock"))
    /\ issued' = Append(issued, EncodeTodo(f.todo))
    /\ UNCHANGED <<shared, mu, deleted, markedDone, atomic>>

CreateUnlock(f) ==
    /\ f.pc = "c_unlock" /\ Quiet
    /\ Unlock
    /\ Step(f, Goto(f, "c_done"))
    /\ UNCHANGED <<shared, hist>>

----------------------------------------------------------------------------
(* updateTodoHandler *)

\* Mutation: the error of strconv.Atoi is not checked; id is 0 on an error.
UpdateBegin_IgnoreAtoiErr ==
    /\ Free
    /\ \E m \in Methods, s \in IdStrs :
         LET g == [Frame("u_lock") EXCEPT !.method = m]
             r == [NoReq EXCEPT !.route = "/todos/update", !.method = m, !.idStr = s]
         IN  IF m # "PUT"
             THEN Reject(g, [r EXCEPT !.idStr = <<>>], 405, "u_done")
             ELSE IF s = <<>>
             THEN Reject(g, r, 400, "u_done")
             ELSE /\ Enter([g EXCEPT !.err = Atoi(s).err, !.id = Atoi(s).val])
                  /\ UNCHANGED <<shared, mu, hist>>

UpdateBegin ==
    /\ Free
    /\ \E m \in Methods, s \in IdStrs :
         LET g == [Frame("u_lock") EXCEPT !.method = m]
             r == [NoReq EXCEPT !.route = "/todos/update", !.method = m, !.idStr = s]
         IN  IF m # "PUT"
             THEN Reject(g, [r EXCEPT !.idStr = <<>>], 405, "u_done")
             ELSE IF s = <<>>
             THEN Reject(g, r, 400, "u_done")
             ELSE IF Atoi(s).err
             THEN Reject([g EXCEPT !.err = TRUE], r, 400, "u_done")
             ELSE /\ Enter([g EXCEPT !.id = Atoi(s).val])
                  /\ UNCHANGED <<shared, mu, hist>>

\* Mutation: updateTodoHandler does not wait for the mutex.
UpdateLock_NoWait(f) ==
    /\ f.pc = "u_lock" /\ Quiet
    /\ mu' = TRUE
    /\ Step(f, Goto(Expect(f, SeqMarkDone(atomic, f.id)), "u_lookup"))
    /\ atomic' = SeqMarkDone(atomic, f.id).st
    /\ UNCHANGED <<shared, issued, deleted, markedDone>>

UpdateLock(f) ==
    /\ f.pc = "u_lock" /\ Quiet
    /\ Lock
    /\ Step(f, Goto(Expect(f, SeqMarkDone(atomic, f.id)), "u_lookup"))
    /\ atomic' = SeqMarkDone(atomic, f.id).st
    /\ UNCHANGED <<shared, issued, deleted, markedDone>>

\* Mutation: no defer; the 404 return leaves without mu.Unlock().
UpdateLookup_NoUnlockOn404(f) ==
    /\ f.pc = "u_lookup" /\ Quiet
    /\ IF f.id \in DOMAIN todos
       THEN Step(f, [f EXCEPT !.pc = "u_store", !.todo = todos[f.id]])
       ELSE Step(f, Goto(WriteHeader(f, 404), "u_done"))
    /\ UNCHANGED <<shared, mu, hist>>

\* Mutation: `exists` is ignored; an absent id is updated like a present one.
UpdateLookup_Upsert(f) ==
    /\ f.pc = "u_lookup" /\ Quiet
    /\ Step(f, [f EXCEPT !.pc = "u_store",
                         !.todo = IF f.id \in DOMAIN todos THEN todos[f.id] ELSE NoTodo])
    /\ UNCHANGED <<shared, mu, hist>>

\* Mutation: a todo that is already done is refused with 400.
UpdateLookup_RejectDone(f) ==
    /\ f.pc = "u_lookup" /\ Quiet
    /\ IF f.id \notin DOMAIN todos
       THEN Step(f, Goto(WriteHeader(f, 404), "u_unlock"))
       ELSE IF todos[f.id].Done
       THEN Step(f, Goto(WriteHeader([f EXCEPT !.todo = todos[f.id]], 400), "u_unlock"))
       ELSE Step(f, [f EXCEPT !.pc = "u_store", !.todo = todos[f.id]])
    /\ UNCHANGED <<shared, mu, hist>>

UpdateLookup(f) ==
    /\ f.pc = "u_lookup" /\ Quiet
    /\ IF f.id \in DOMAIN todos
       THEN Step(f, [f EXCEPT !.pc = "u_store", !.todo = todos[f.id]])
       ELSE Step(f, Goto(WriteHeader(f, 404), "u_unlock"))
    /\ UNCHANGED <<shared, mu, hist>>

\* Mutation: a fresh value is stored, todos[id] = Todo{ID: id, Done: true}.
UpdateStore_FreshTodo(f) ==
    /\ f.pc = "u_store" /\ Quiet
    /\ LET t == [ID |-> f.id, Title |-> "", Done |-> TRUE]
       IN  /\ todos' = Put(todos, f.id, t)
           /\ Step(f, [f EXCEPT !.pc = "u_encode", !.todo = t])
    /\ markedDone' = IF f.id \in DOMAIN markedDone THEN markedDone
                      ELSE Put(markedDone, f.id, [f.todo EXCEPT !.Done = TRUE])
    /\ UNCHANGED <<nextID, mu, issued, deleted, atomic>>

\* Mutation: the local copy is changed but never written back to the map.
UpdateStore_NoWriteBack(f) ==
    /\ f.pc = "u_store" /\ Quiet
    /\ Step(f, [f EXCEPT !.pc = "u_encode", !.todo = [f.todo EXCEPT !.Done = TRUE]])
    /\ markedDone' = IF f.id \in DOMAIN markedDone THEN markedDone
                      ELSE Put(markedDone, f.id, [f.todo EXCEPT !.Done = TRUE])
    /\ UNCHANGED <<shared, mu, issued, deleted, atomic>>

\* Mutation: the flag is toggled, todo.Done = !todo.Done.
UpdateStore_Toggle(f) ==
    /\ f.pc = "u_store" /\ Quiet
    /\ LET t == [f.todo EXCEPT !.Done = ~f.todo.Done]
       IN  /\ todos' = Put(todos, f.id, t)
           /\ Step(f, [f EXCEPT !.pc = "u_encode", !.todo = t])
    /\ markedDone' = IF f.id \in DOMAIN markedDone THEN markedDone
                      ELSE Put(markedDone, f.id, [f.todo EXCEPT !.Done = TRUE])
    /\ UNCHANGED <<nextID, mu, issued, deleted, atomic>>

UpdateStore(f) ==
    /\ f.pc = "u_store" /\ Quiet
    /\ LET t == [f.todo EXCEPT !.Done = TRUE]
       IN  /\ todos' = Put(todos, f.id, t)
           /\ Step(f, [f EXCEPT !.pc = "u_encode", !.todo = t])
    /\ markedDone' = IF f.id \in DOMAIN markedDone THEN markedDone
                      ELSE Put(markedDone, f.id, [f.todo EXCEPT !.Done = TRUE])
    /\ UNCHANGED <<nextID, mu, issued, deleted, atomic>>

UpdateEncode(f) ==
    /\ f.pc = "u_encode" /\ Quiet
    /\ Step(f, Goto(Write(f, EncodeTodo(f.todo)), "u_unlock"))
    /\ UNCHANGED <<shared, mu, hist>>

UpdateUnlock(f) ==
    /\ f.pc = "u_unlock" /\ Quiet
    /\ Unlock
    /\ Step(f, Goto(f, "u_done"))
    /\ UNCHANGED <<shared, hist>>

----------------------------------------------------------------------------
(* deleteTodoHandler *)

DeleteBegin ==
    /\ Free
    /\ \E m \in Methods, s \in IdStrs :
         LET g == [Frame("d_lock") EXCEPT !.method = m]
             r == [NoReq EXCEPT !.route = "/todos/delete", !.method = m, !.idStr = s]
         IN  IF m # "DELETE"
             THEN Reject(g, [r EXCEPT !.idStr = <<>>], 405, "d_done")
             ELSE IF s = <<>>
             THEN Reject(g, r, 400, "d_done")
             ELSE IF Atoi(s).err
             THEN Reject([g EXCEPT !.err = TRUE], r, 400, "d_done")
             ELSE /\ Enter([g EXCEPT !.id = Atoi(s).val])
                  /\ UNCHANGED <<shared, mu, hist>>

DeleteLock(f) ==
    /\ f.pc = "d_lock" /\ Quiet
    /\ Lock
    /\ Step(f, Goto(Expect(f, SeqDelete(atomic, f.id)), "d_lookup"))
    /\ atomic' = SeqDelete(atomic, f.id).st
    /\ UNCHANGED <<shared, issued, deleted, markedDone>>

DeleteLookup(f) ==
    /\ f.pc = "d_lookup" /\ Quiet
    /\ IF f.id \in DOMAIN todos
       THEN Step(f, Goto(f, "d_delete"))
       ELSE Step(f, Goto(WriteHeader(f, 404), "d_unlock"))
    /\ UNCHANGED <<shared, mu, hist>>

\* Mutation: the id of the deleted todo is given back, nextID--.
DeleteRemove_GiveBackID(f) ==
    /\ f.pc = "d_delete" /\ Quiet
    /\ todos' = Remove(todos, f.id)
    /\ nextID' = nextID - 1
    /\ Step(f, Goto(f, "d_write"))
    /\ deleted' = deleted \cup {f.id}
    /\ markedDone' = Remove(markedDone, f.id)
    /\ UNCHANGED <<mu, issued, atomic>>

\* Mutation: delete(todos, id) is missing; 204 is still answered.
DeleteRemove_NoDelete(f) ==
    /\ f.pc = "d_delete" /\ Quiet
    /\ Step(f, Goto(f, "d_write"))
    /\ deleted' = deleted \cup {f.id}
    /\ markedDone' = Remove(markedDone, f.id)
    /\ UNCHANGED <<shared, mu, issued, atomic>>

DeleteRemove(f) ==
    /\ f.pc = "d_delete" /\ Quiet
    /\ todos' = Remove(todos, f.id)
    /\ Step(f, Goto(f, "d_write"))
    /\ deleted' = deleted \cup {f.id}
    /\ markedDone' = Remove(markedDone, f.id)
    /\ UNCHANGED <<nextID, mu, issued, atomic>>

DeleteWrite(f) ==
    /\ f.pc = "d_write" /\ Quiet
    /\ Step(f, Goto(WriteHeader(f, 204), "d_unlock"))
    /\ UNCHANGED <<shared, mu, hist>>

DeleteUnlock(f) ==
    /\ f.pc = "d_unlock" /\ Quiet
    /\ Unlock
    /\ Step(f, Goto(f, "d_done"))
    /\ UNCHANGED <<shared, hist>>

----------------------------------------------------------------------------
\* The handler has returned and its response is sent: the goroutine ends.
Finish(f) ==
    /\ f.pc \in DonePcs
    /\ Leave(f)
    /\ UNCHANGED <<shared, mu, hist>>

Next ==
    \/ ListBegin \/ CreateBegin \/ UpdateBegin \/ DeleteBegin
    \/ \E f \in Frames : ListLock(f)
    \/ \E f \in Frames : ListEncode(f)
    \/ \E f \in Frames : ListUnlock(f)
    \/ \E f \in Frames : CreateLock(f)
    \/ \E f \in Frames : CreateBuild(f)
    \/ \E f \in Frames : CreateStore(f)
    \/ \E f \in Frames : CreateInc(f)
    \/ \E f \in Frames : CreateEncode(f)
    \/ \E f \in Frames : CreateUnlock(f)
    \/ \E f \in Frames : UpdateLock(f)
    \/ \E f \in Frames : UpdateLookup(f)
    \/ \E f \in Frames : UpdateStore(f)
    \/ \E f \in Frames : UpdateEncode(f)
    \/ \E f \in Frames : UpdateUnlock(f)
    \/ \E f \in Frames : DeleteLock(f)
    \/ \E f \in Frames : DeleteLookup(f)
    \/ \E f \in Frames : DeleteRemove(f)
    \/ \E f \in Frames : DeleteWrite(f)
    \/ \E f \in Frames : DeleteUnlock(f)
    \/ \E f \in Frames : Finish(f)

Spec == Init /\ [][Next]_vars

----------------------------------------------------------------------------
(* Fair scheduling *)

\* The frames that can wait for the lock: one per handler and value of its
\* locals.
Waiters ==
    {Frame("l_lock")}
      \cup {[Frame("c_lock") EXCEPT !.method = "POST", !.title = Decode(b).Title] :
               b \in {x \in Bodies : ~Decode(x).err}}
      \cup {[Frame("u_lock") EXCEPT !.method = "PUT", !.id = Atoi(s).val] :
               s \in {x \in IdStrs : ~Atoi(x).err}}
      \cup {[Frame("d_lock") EXCEPT !.method = "DELETE", !.id = Atoi(s).val] :
               s \in {x \in IdStrs : ~Atoi(x).err}}

\* The next statement of the handler that holds the lock.
HolderStep ==
    \E f \in Frames :
        \/ ListEncode(f) \/ ListUnlock(f)
        \/ CreateBuild(f) \/ CreateStore(f) \/ CreateInc(f) \/ CreateEncode(f)
        \/ CreateUnlock(f)
        \/ UpdateLookup(f) \/ UpdateStore(f) \/ UpdateEncode(f) \/ UpdateUnlock(f)
        \/ DeleteLookup(f) \/ DeleteRemove(f) \/ DeleteWrite(f) \/ DeleteUnlock(f)

\* The Go scheduler runs every runnable goroutine: the handler that holds the
\* lock takes its next statement, and a handler that has returned ends.  New
\* requests need not arrive.
Fairness ==
    /\ SF_vars(HolderStep)
    /\ WF_vars(\E f \in Frames : Finish(f))

\* sync.Mutex is fair to the waiting handler g: a goroutine that finds the
\* mutex free again and again acquires it (a waiter of more than 1ms puts the
\* mutex in starvation mode, which hands it over on Unlock).
LockFair(g) == SF_vars(ListLock(g) \/ CreateLock(g) \/ UpdateLock(g) \/ DeleteLock(g))

FairSpec == Init /\ [][Next]_vars /\ Fairness

----------------------------------------------------------------------------
(* Properties *)

\* Frame f takes a step: one copy of it leaves the bag.
Moves(f) == CopiesIn(f, frames') < CopiesIn(f, frames)

IssuedIds == {issued[i].id : i \in 1..Len(issued)}

\* Text keys of a List response, and the ids they denote.
ListKeys(f) == DOMAIN f.body.m

\* C1: the ids Create returns are pairwise distinct and strictly increasing in
\* the order the Creates run their critical sections; an id a Create has
\* allocated is larger than every id returned before and was never deleted,
\* so a deleted id is not issued again.
C1_IdsIncreasing ==
    /\ \A i, j \in 1..Len(issued) : i < j => issued[i].id < issued[j].id
    /\ \A f \in Frames :
         f.pc \in {"c_store", "c_inc", "c_encode"} =>
            /\ \A i \in 1..Len(issued) : issued[i].id < f.todo.ID
            /\ f.todo.ID \notin deleted

\* A Create has answered after the id of an earlier Create was deleted.
C1_Witness ==
    /\ Len(issued) = 2
    /\ issued[1].id \in deleted
    /\ \E f \in Frames : f.pc = "c_done" /\ f.status = 200 /\ f.body = issued[2]

\* C2: any run of Creates that follow one another, concurrent or not, returns
\* consecutive ids: the j-i+1 Creates starting when the counter is k return
\* exactly k, k+1, ..., k+(j-i), whatever was deleted meanwhile.
C2_NoGaps ==
    \A i, j \in 1..Len(issued) :
        i <= j => {issued[n].id : n \in i..j} = issued[i].id .. (issued[i].id + (j - i))

\* Two Creates are in flight at once: one has answered and still holds the
\* lock, the other waits for it.
C2_Witness ==
    \E f, g \in Frames :
        /\ f.pc = "c_unlock" /\ f.status = 200 /\ f.body.id = nextID - 1
        /\ g.pc = "c_lock"

\* C3: at most one handler is inside a critical section, the mutex is held
\* exactly then, and a List response is never torn: every todo in it has the
\* id of its key, the title its Create was given and the done value stored.
C3_MutualExclusion ==
    /\ NumAt(CritPcs) <= 1
    /\ mu = (NumAt(CritPcs) = 1)
    /\ \A f \in Frames :
         f.pc \in {"l_unlock", "l_done"} =>
            /\ f.status = 200
            /\ \A s \in ListKeys(f) :
                 LET t == f.body.m[s]
                 IN  /\ ~Atoi(s).err /\ Atoi(s).val = t.id
                     /\ \E i \in 1..Len(issued) :
                          issued[i].id = t.id /\ issued[i].title = t.title
                     /\ t.done = (t.id \in DOMAIN markedDone)

\* A List has answered with a done todo in it while another handler waits for
\* the lock.
C3_Witness ==
    \E f, g \in Frames :
        /\ f.pc = "l_unlock"
        /\ \E s \in ListKeys(f) : f.body.m[s].done
        /\ g.pc \in LockPcs

\* C4: nextID is larger than every id a Create has returned, deleted ones
\* included, and than every key of the map whenever the mutex is free; it is
\* 1 as long as no Create has run.
C4_NextIDAboveIssued ==
    /\ \A k \in IssuedIds \cup deleted : k < nextID
    /\ mu = FALSE => \A k \in DOMAIN todos : k < nextID
    /\ nextID >= 1
    /\ (issued = <<>> /\ NumAt({"c_encode"}) = 0) => nextID = 1

\* Both todos were created and the first was deleted.
C4_Witness ==
    /\ Len(issued) = 2 /\ deleted = {1} /\ DOMAIN todos = {2} /\ mu = FALSE

C6_DeleteIsPermanent ==
    /\ \A k \in deleted : k \notin DOMAIN todos
    /\ \A f \in Frames :
         /\ f.pc \in {"l_unlock", "l_done"} =>
               \A s \in ListKeys(f) : Atoi(s).val \notin deleted
         /\ f.pc \in {"u_store", "u_encode", "d_delete"} => f.id \notin deleted
         /\ (f.pc \in {"u_unlock", "u_done"} /\ f.bad = NoReq /\ f.id \in deleted) =>
               f.status = 404 /\ f.body = NoBody
         /\ (f.pc \in {"d_unlock", "d_done"} /\ f.bad = NoReq /\ f.id \in deleted) =>
               f.status \in {204, 404} /\ f.body = NoBody

\* A second Delete of a deleted id has answered 404.
C6_Witness ==
    \E f \in Frames :
        f.pc = "d_unlock" /\ f.status = 404 /\ f.id \in deleted

\* C7: a MarkDone of a present id answers 200 with that todo and done=true and
\* has stored it; as long as the todo is not deleted the map, and so every
\* List response, shows it done.
C7_MarkDoneStores ==
    /\ \A k \in DOMAIN markedDone : k \in DOMAIN todos /\ todos[k].Done
    /\ \A f \in Frames :
         /\ (f.pc \in {"u_unlock", "u_done"} /\ f.bad = NoReq /\ f.status # 404) =>
               /\ f.status = 200
               /\ f.id \in DOMAIN todos
               /\ f.body = EncodeTodo(todos[f.id])
               /\ f.body.id = f.id /\ f.body.done
         /\ f.pc \in {"l_unlock", "l_done"} =>
               \A k \in DOMAIN markedDone :
                   Itoa(k) \in ListKeys(f) /\ f.body.m[Itoa(k)].done

\* A List has answered after a MarkDone.
C7_Witness ==
    \E f \in Frames :
        /\ f.pc = "l_done"
        /\ DOMAIN markedDone # {}
        /\ \E s \in ListKeys(f) : ~f.body.m[s].done

\* C8: a MarkDone of an id that was already marked done still answers 200,
\* returns the todo the first call stored, and leaves the map and nextID as
\* they were.
C8_MarkDoneIdempotent ==
    /\ [][\A f \in Frames :
            (f.pc = "u_store" /\ f.id \in DOMAIN markedDone /\ Moves(f)) =>
                UNCHANGED <<shared, markedDone>>]_vars
    /\ [](\A f \in Frames :
            (f.pc \in {"u_unlock", "u_done"} /\ f.bad = NoReq
               /\ f.id \in DOMAIN markedDone) =>
                f.status = 200 /\ f.body = EncodeTodo(markedDone[f.id]))

\* A second MarkDone of the same id holds the lock and has found the todo done.
C8_Witness ==
    \E f \in Frames :
        f.pc = "u_store" /\ f.todo.Done /\ f.id \in DOMAIN markedDone

\* C9: no step turns the done flag of a todo that stays in the map from true
\* to false, and a todo enters the map with done=false.
C9_DoneNeverReverts ==
    [][/\ \A k \in (DOMAIN todos) \cap (DOMAIN todos') : todos[k].Done => todos'[k].Done
       /\ \A k \in (DOMAIN todos') \ (DOMAIN todos) : ~todos'[k].Done]_vars

\* A done todo is in the map and a MarkDone of it is about to store again.
C9_Witness ==
    /\ \E k \in DOMAIN todos : todos[k].Done
    /\ \E k \in DOMAIN todos : ~todos[k].Done
    /\ \E f \in Frames : f.pc = "u_encode" /\ f.todo.Done

\* C10: a Create is refused only for a wrong method or a body that does not
\* decode; otherwise it answers 200 with the id it allocated, the title of the
\* request and done=false, and when it returns the map, and so the List
\* response, holds exactly that todo under that id.
C10_CreateSucceeds ==
    \A f \in Frames :
        /\ (f.pc = "c_done" /\ f.bad # NoReq) =>
              f.bad.method # "POST" \/ Decode(f.bad.body).err
        /\ (f.pc \in {"c_unlock", "c_done"} /\ f.bad = NoReq) =>
              /\ f.status = 200
              /\ f.body = [kind |-> "todo", id |-> nextID - 1, title |-> f.title, done |-> FALSE]
              /\ Itoa(f.body.id) \in DOMAIN EncodeTodos(todos).m
              /\ EncodeTodos(todos).m[Itoa(f.body.id)] = f.body

\* A Create with an empty title has answered with the second id.
C10_Witness ==
    \E f \in Frames :
        /\ f.pc = "c_done" /\ f.status = 200
        /\ f.title = "" /\ f.body.id = 2
        /\ 1 \in DOMAIN todos /\ todos[1].Title = "a"

\* Positions of each handler, from its first wait for the lock to its return.
ListPcs   == {"l_lock", "l_encode", "l_unlock", "l_done"}
CreatePcs == {"c_lock", "c_build", "c_store", "c_inc", "c_encode", "c_unlock", "c_done"}
UpdatePcs == {"u_lock", "u_lookup", "u_store", "u_encode", "u_unlock", "u_done"}
DeletePcs == {"d_lock", "d_lookup", "d_delete", "d_write", "d_unlock", "d_done"}

\* C11: List, Create and MarkDone do no I/O while holding the lock: a handler
\* that is inside its critical section has written neither a status nor a
\* body, so the response is encoded only after the lock is released.
C11_NoIOUnderLock ==
    \A f \in Frames :
        (f.pc \in (ListPcs \cup CreatePcs \cup UpdatePcs) /\ f.pc \in CritPcs) =>
            f.status = 0 /\ f.body = NoBody

\* The half of C11 that the handlers keep: the request body is decoded before
\* the lock is asked for, so a Create that waits or holds the lock already has
\* its title and no decode error.
C11_DecodeBeforeLock ==
    \A f \in Frames : f.pc \in CreatePcs \ {"c_done"} => f.method = "POST" /\ ~f.err

\* The method each guarded handler accepts.
HandlerMethod(f) ==
    IF f.pc \in CreatePcs THEN "POST"
    ELSE IF f.pc \in UpdatePcs THEN "PUT"
    ELSE "DELETE"

\* Frame f belongs to a guarded handler that read a method it does not accept.
WrongMethod(f) == f.pc \notin ListPcs /\ f.method # HandlerMethod(f)

\* Frame g has entered the bag with this step.
Enters(g) == CopiesIn(g, frames') > CopiesIn(g, frames)

\* C12: a request with the wrong method on /todos/create, /todos/update or
\* /todos/delete is answered 405 with no body and the handler returns at once:
\* its frame is never at a position that waits for or holds the lock, and the
\* step that answers it, like the step that ends it, leaves the map, nextID
\* and the mutex as they were.
C12_WrongMethodIs405 ==
    /\ [](\A f \in Frames :
            /\ WrongMethod(f) =>
                  /\ f.pc \in DonePcs
                  /\ f.status = 405 /\ f.body = NoBody
                  /\ f.bad.method = f.method
            /\ f.status = 405 => WrongMethod(f))
    /\ [][/\ \A g \in BagToSet(frames') :
               (WrongMethod(g) /\ Enters(g)) => UNCHANGED <<todos, nextID, mu>>
          /\ \A f \in Frames :
               (WrongMethod(f) /\ Moves(f)) => UNCHANGED <<todos, nextID, mu>>]_vars

\* A POST to /todos/update has been answered 405 while another handler holds
\* the lock over a non-empty map.
C12_Witness ==
    /\ mu = TRUE /\ DOMAIN todos # {}
    /\ \E f \in Frames : f.pc = "u_done" /\ f.method = "POST" /\ f.status = 405

\* C13: a Create whose body does not decode, and a MarkDone or Delete whose id
\* is missing or is not an integer, are answered 400 with no body before the
\* lock is asked for: a frame with a decode or conversion error is never at a
\* position that waits for or holds the lock, 400 is answered for these
\* requests only, and the step that answers it leaves the map, nextID (so no
\* id is consumed) and the mutex as they were.
C13_BadRequestIs400 ==
    /\ [](\A f \in Frames :
            /\ f.err => f.pc \in DonePcs /\ f.status = 400 /\ f.body = NoBody
            /\ f.status = 400 =>
                  /\ f.pc \in DonePcs \ {"l_done"} /\ f.body = NoBody
                  /\ ~WrongMethod(f)
                  /\ IF f.pc = "c_done"
                     THEN f.err /\ Decode(f.bad.body).err
                     ELSE \/ f.bad.idStr = <<>>
                          \/ f.err /\ Atoi(f.bad.idStr).err
            /\ (f.bad # NoReq /\ ~WrongMethod(f)) => f.status = 400)
    /\ [][/\ \A g \in BagToSet(frames') :
               (g.status = 400 /\ Enters(g)) => UNCHANGED <<todos, nextID, mu>>
          /\ \A f \in Frames :
               (f.status = 400 /\ Moves(f)) => UNCHANGED <<todos, nextID, mu>>]_vars

\* A Create with a malformed body has been answered 400 after one todo was
\* created, and the next id is still 2.
C13_Witness ==
    /\ nextID = 2 /\ Len(issued) = 1
    /\ \E f \in Frames :
         f.pc = "c_done" /\ f.status = 400 /\ f.bad.body.kind = "malformed"

\* C14: List has no error outcome and no side effect: whatever the method, its
\* frame goes through the lock to a response of status 200 whose body is the
\* encoding of the whole map as it is then (an object without keys for an
\* empty map), and no step of a List changes the map or nextID.
C14_ListAlways200 ==
    /\ [](\A f \in Frames :
            f.pc \in ListPcs =>
               /\ f.bad = NoReq
               /\ f.pc \in {"l_lock", "l_encode"} => f.status = 0 /\ f.body = NoBody
               /\ f.pc \in {"l_unlock", "l_done"} =>
                     /\ f.status = 200
                     /\ f.body = EncodeTodos(todos)
                     /\ ListKeys(f) = {Itoa(k) : k \in DOMAIN todos})
    /\ [][/\ \A g \in BagToSet(frames') :
               (g.pc \in ListPcs /\ Enters(g)) => UNCHANGED <<todos, nextID>>
          /\ \A f \in Frames :
               (f.pc \in ListPcs /\ Moves(f)) => UNCHANGED <<todos, nextID>>]_vars

\* A List has answered with both todos of the map, and another List has
\* started meanwhile.
C14_Witness ==
    \E f, g \in Frames :
        /\ f.pc = "l_done" /\ Cardinality(ListKeys(f)) = 2
        /\ g.pc = "l_lock"

\* C15 as stated: in every reachable state each key k of the map satisfies
\* todos[k].ID = k and 1 <= k < nextID.
C15_KeysBelowNextID ==
    \A k \in DOMAIN todos : todos[k].ID = k /\ 1 <= k /\ k < nextID

\* C15, amended: in every reachable state each key k of the map satisfies
\* todos[k].ID = k and 1 <= k <= nextID, and k was produced by the counter: a
\* Create has returned it or is still in its critical section with it.  The
\* key equals nextID only while that Create stands between its store and its
\* increment; whenever the mutex is free every key is below nextID.
C15_KeysWithinCounter ==
    \A k \in DOMAIN todos :
        /\ todos[k].ID = k /\ 1 <= k /\ k <= nextID
        /\ \/ k \in IssuedIds
           \/ \E f \in Frames : f.pc \in {"c_inc", "c_encode"} /\ f.todo.ID = k
        /\ k = nextID => \E f \in Frames : f.pc = "c_inc" /\ f.todo.ID = k
        /\ mu = FALSE => k < nextID

\* A second Create has stored its todo and not yet advanced the counter: the
\* map holds the key nextID.
C15_Witness ==
    /\ nextID = 2 /\ DOMAIN todos = {1, 2}
    /\ \E f \in Frames : f.pc = "c_inc" /\ f.todo.ID = nextID

\* C16: nextID changes only in the increment of a Create that got through its
\* checks, and there by exactly +1; every other step, of MarkDone, Delete,
\* List or a refused request, leaves it unchanged.  So nextID is 1 plus the
\* number of Creates that have incremented it: those answered 200 and the one,
\* if any, that has incremented and not yet answered.
C16_NextIDCountsCreates ==
    /\ [][nextID' # nextID =>
            /\ nextID' = nextID + 1
            /\ \E f \in Frames :
                 /\ f.pc = "c_inc" /\ Moves(f)
                 /\ f.method = "POST" /\ ~f.err /\ f.status = 0]_vars
    /\ [](/\ nextID = 1 + Len(issued) + NumAt({"c_encode"})
          /\ \A i \in 1..Len(issued) : issued[i].id = i
          /\ mu = FALSE => nextID = 1 + Len(issued))

\* Two Creates have succeeded, a Delete has removed a todo and a MarkDone of
\* an absent id is answered 404: nextID is 3.
C16_Witness ==
    /\ nextID = 3 /\ deleted # {}
    /\ \E f \in Frames : f.pc = "u_done" /\ f.status = 404

\* C17: the store of a MarkDone changes only the done field of the todo under
\* its id, the removal of a Delete takes away only the entry under its id, the
\* store of a Create adds one entry under a key that was free, and each of the
\* three leaves every other entry as it was; no other step changes the map.
C17_FrameEffects ==
    [][\A f \in Frames :
          Moves(f) =>
             IF f.pc = "u_store"
             THEN /\ f.id \in DOMAIN todos
                  /\ todos' = [todos EXCEPT ![f.id].Done = TRUE]
                  /\ nextID' = nextID
             ELSE IF f.pc = "d_delete"
             THEN /\ f.id \in DOMAIN todos
                  /\ DOMAIN todos' = (DOMAIN todos) \ {f.id}
                  /\ \A k \in DOMAIN todos' : todos'[k] = todos[k]
                  /\ nextID' = nextID
             ELSE IF f.pc = "c_store"
             THEN /\ \E k \in (DOMAIN todos') \ (DOMAIN todos) :
                       /\ DOMAIN todos' = (DOMAIN todos) \cup {k}
                       /\ todos'[k] = [ID |-> k, Title |-> f.title, Done |-> FALSE]
                  /\ \A k \in DOMAIN todos : todos'[k] = todos[k]
                  /\ nextID' = nextID
             ELSE todos' = todos]_vars

\* A MarkDone has stored done=true for todo 1 while todo 2, untouched, is
\* still not done.
C17_Witness ==
    /\ DOMAIN todos = {1, 2} /\ todos[1].Done /\ ~todos[2].Done
    /\ \E f \in Frames : f.pc = "u_encode" /\ f.id = 1

\* The response to the request of waiting frame g: a frame of the same handler
\* with the same locals has returned with a status.
Answered(g) ==
    \E f \in Frames :
        /\ f.pc \in DonePcs /\ f.status # 0 /\ f.bad = NoReq
        /\ f.method = g.method /\ f.id = g.id /\ f.title = g.title
        /\ \/ g.pc = "l_lock" /\ f.pc = "l_done"
           \/ g.pc = "c_lock" /\ f.pc = "c_done"
           \/ g.pc = "u_lock" /\ f.pc = "u_done"
           \/ g.pc = "d_lock" /\ f.pc = "d_done"

C19_MarkDoneVsDelete ==
    /\ \A k \in deleted : k \notin DOMAIN todos
    /\ \A u \in Frames :
         (u.pc \in UpdatePcs /\ u.bad = NoReq) =>
            /\ u.pc \in {"u_store", "u_encode"} =>
                  u.id \in DOMAIN todos /\ u.id \notin deleted /\ u.status = 0
            /\ u.pc \in {"u_unlock", "u_done"} =>
                  \/ /\ u.status = 200
                     /\ u.id \in DOMAIN todos /\ u.id \notin deleted
                     /\ u.body = EncodeTodo(todos[u.id])
                  \/ u.status = 404 /\ u.id \notin DOMAIN todos /\ u.body = NoBody
    /\ \A d \in Frames :
         (d.pc \in {"d_write", "d_unlock", "d_done"} /\ d.bad = NoReq) =>
            /\ d.id \notin DOMAIN todos
            /\ d.status \in {0, 204, 404} /\ d.body = NoBody
            /\ d.status # 404 => d.id \in deleted
    /\ \A u, d \in Frames :
         (u.pc \in UpdatePcs /\ d.pc \in DeletePcs /\ u.bad = NoReq /\ d.bad = NoReq
            /\ u.id = d.id) =>
            /\ u.pc \in CritPcs => d.pc = "d_lock"
            /\ d.pc \in CritPcs => u.pc = "u_lock"
            /\ (u.pc = "u_done" /\ u.status = 200) =>
                  d.pc = "d_lock" /\ d.id \in DOMAIN todos
            /\ (d.pc = "d_done" /\ d.status = 204) =>
                  u.pc = "u_lock" /\ u.id \notin DOMAIN todos

\* Delete(1) has removed todo 1 and answered 204 while MarkDone(1), sent
\* before, still waits for the lock.
C19_Witness ==
    \E u, d \in Frames :
        /\ d.pc = "d_unlock" /\ d.status = 204 /\ d.id = 1
        /\ u.pc = "u_lock" /\ u.id = 1

\* MarkDone(1) has stored and answered 200 while Delete(1), sent before, still
\* waits for the lock.
C19_WitnessMarkDoneFirst ==
    \E u, d \in Frames :
        /\ u.pc = "u_unlock" /\ u.status = 200 /\ u.id = 1
        /\ d.pc = "d_lock" /\ d.id = 1

\* The positions at which the handler's store operation is complete.
AfterOpPcs == {"l_unlock", "c_unlock", "u_unlock", "d_unlock"} \cup DonePcs

\* C20: the handlers refine the atomic store run in the order in which the
\* lock is acquired: whenever no handler is in the middle of its operation the
\* map and nextID are those of the atomic store, and every handler that got
\* through its checks returns the status and the payload the atomic store
\* computed for its operation at the moment it acquired the lock.
C20_Linearizable ==
    /\ (\A f \in Frames : f.pc \in CritPcs => f.pc \in AfterOpPcs) =>
          todos = atomic.todos /\ nextID = atomic.nextID
    /\ \A f \in Frames :
         (f.pc \in AfterOpPcs /\ f.bad = NoReq) =>
            f.status = f.exp.status /\ f.body = f.exp.body

\* After a Create, a MarkDone and a Delete have run, a List that waited behind
\* a second Create returns the map of the atomic store.
C20_Witness ==
    /\ deleted # {} /\ DOMAIN atomic.todos # {}
    /\ \E f \in Frames :
         /\ f.pc = "l_done" /\ f.body = f.exp.body
         /\ \E s \in ListKeys(f) : f.body.m[s].id = 2

====
